---- MODULE Spec2Model ----
(***************************************************************************)
(* Reverse lookup resolver of internal/graph/lookup.go.                    *)
(*                                                                         *)
(* A LookupResult is modelled by an outcome record                         *)
(*   [kind, err, objs, ev]                                                 *)
(* kind = "ok"    : Err == nil, objs is the set of the resolved ONRs       *)
(* kind = "err"   : Err != nil, err names the error                        *)
(* kind = "panic" : no LookupResult at all, the process panicked           *)
(* ev is the set of events that producing the result may have caused:      *)
(* "query" (a datastore query was executed), "iterErr" (a tuple iterator   *)
(* reported an error).                                                     *)
(*                                                                         *)
(* A ReduceableLookupFunc is modelled by the SET of the outcomes it can    *)
(* deliver when driven: the datastore's tuple order and the iteration      *)
(* order of an ONRSet are not fixed, so a limit leaves a choice.           *)
(***************************************************************************)
EXTENDS Integers, FiniteSets, Sequences, TLC

VARIABLES
    tuples,     \* the datastore content at req.AtRevision: a set of [obj, sub]
    fault,      \* how the datastore's tuple queries fail: "none", "execute", "iterate"
    req,        \* the LookupRequest handed to lookup
    pc,         \* position of lookup: "start", "loop", "return", "done"
    objSet,     \* lookup's objSet
    toCheck,    \* lookup's toCheck
    result,     \* the outcome lookup delivered (kind = "none" until then)
    resolved,   \* the ResolvedObjects slice of the delivered LookupResult
    dispatched, \* the sub-requests the closure loop dispatched, with their results
    inputs,     \* LookupAny run alone: the result each of its requests delivers
    anyLimit,   \* its limit
    taskPc,     \* each request's goroutine: "running", "sending", "returned"
    anyPc,      \* LookupAny itself: "idle", "receive", "returned"
    chanIdx,    \* the index into resultChans of the channel it receives from
    anyObjects, \* its objects
    ctxDone,    \* whether the ctx it was called with is cancelled
    childDone,  \* whether its deferred cancelFn has cancelled childCtx
    anyResult,  \* the LookupResult it returned
    anySlice,   \* the ResolvedObjects slice of that LookupResult
    ctxDoneEarly, \* whether ctx was cancelled while the combinator still had
                \* a result to receive
    combinator, \* the combinator that is run alone: "LookupAny", "LookupOne",
                \* "LookupAll", "LookupExclude"
    redLimit,   \* LookupOne, LookupAll, LookupExclude run alone: the limit
    redPc,      \* the combinator itself: "idle", "receive", "returned"
    redCount,   \* the results it has received (i of the receive loop)
    redObjSet,  \* objSet of LookupAll and of LookupExclude
    redExcSet,  \* excSet of LookupExclude
    sharedChan, \* the requests whose results wait in the buffer of resultChan
                \* of LookupAll, of othersChan of LookupExclude
    baseChan,   \* the requests whose results wait in the buffer of baseChan
    redResult,  \* the LookupResult it returned
    tKind,      \* a task run alone: "direct", "inferred", "ttu"
    tLimit,     \* req.Limit of the request the task works for
    tPc,        \* its position: "dispatch", "typecheck", "ellipsis", "execute",
                \* "next", "send", "return", "done"
    tThen,      \* at a send: what follows it, "return" or "continue"
    tSent,      \* the results it has sent on resultChan
    tIter,      \* its tuple iterator: "none", "open", "closed"
    tRecv,      \* the combinator, for the task's channel: "pending" (it has
                \* still to receive from it), "received", "gone" (it returned)
    tObjects,   \* objects.Length() in the loop over the iterator
    tResolved,  \* the resolved objects the type checks have still to be made for
    tUsersets   \* whether usersets has an element

lookupVars == <<tuples, fault, req, pc, objSet, toCheck, result, resolved, dispatched>>

anyVars == <<inputs, anyLimit, taskPc, anyPc, chanIdx, anyObjects, ctxDone, childDone,
             anyResult, anySlice, ctxDoneEarly, combinator>>

redVars == <<redLimit, redPc, redCount, redObjSet, redExcSet, sharedChan, baseChan,
             redResult>>

taskVars == <<tKind, tLimit, tPc, tThen, tSent, tIter, tRecv, tObjects, tResolved,
              tUsersets>>

vars == <<lookupVars, anyVars, redVars, taskVars>>

----------------------------------------------------------------------------
(* Bounds of the model. *)

MaxLimit == 3
MaxDepth == 5
MaxRequests == 3

----------------------------------------------------------------------------
(* Data model. *)

Ellipsis == "..."

\* int(maxUint >> 1) where int is 32 bits wide.
noLimit == 2147483647

ONR(ns, id, rel) == [ns |-> ns, id |-> id, rel |-> rel]

RelationReference(ns, rel) == [ns |-> ns, rel |-> rel]

Tuple(obj, sub) == [obj |-> obj, sub |-> sub]

Range(s) == {s[i] : i \in DOMAIN s}

\* Stack.With: a new stack extended with the reference of onr; the object id is
\* not part of the key.
With(stack, ref) == stack \cup {ref}

Has(stack, ref) == ref \in stack

\* ONRSet.AsSlice: the elements of the set, each once, in an order the set
\* does not fix.
RECURSIVE AsSlice(_)
AsSlice(S) ==
    IF S = {} THEN {<<>>}
    ELSE UNION {{<<x>> \o s : s \in AsSlice(S \ {x})} : x \in S}

\* limitedSlice that returns the slice whole.
limitedSliceWhole(slice, limit) == slice

limitedSlice(slice, limit) ==
    IF Len(slice) > limit THEN SubSeq(slice, 1, limit) ELSE slice

\* A slice of the set that lists its elements a second time.
limitedSlicesRepeated(S, limit) == {limitedSlice(sl \o sl, limit) : sl \in AsSlice(S)}

\* limitedSlice(set.AsSlice(), limit), as the slices it can return.
limitedSlices(S, limit) == {limitedSlice(sl, limit) : sl \in AsSlice(S)}

\* limitedSlice(set.AsSlice(), limit), as the sets of ONRs it can return.
limitedAsSlice(S, limit) == {Range(limitedSlice(s, limit)) : s \in AsSlice(S)}

----------------------------------------------------------------------------
(* Outcomes. *)

Ok(S, ev) == [kind |-> "ok", err |-> "nil", objs |-> S, ev |-> ev]

Err(e, ev) == [kind |-> "err", err |-> e, objs |-> {}, ev |-> ev]

\* ResolveError(nil) panics: "Given nil error to ResolveError".
Panic(ev) == [kind |-> "panic", err |-> "nil", objs |-> {}, ev |-> ev]

NoResult == [kind |-> "none", err |-> "nil", objs |-> {}, ev |-> {}]

\* ResolvedObjects: the task that delivers the given slice.
ResolvedObjects(S) == {Ok(S, {})}

\* ResolveError: the task that delivers the given error; a nil error panics.
ResolveError(e, ev) == IF e = "nil" THEN {Panic(ev)} ELSE {Err(e, ev)}

AllEv(rs) == UNION {rs[i].ev : i \in DOMAIN rs}

\* One result per task: the sequences that take the i-th result from the
\* outcomes of the i-th task.
RECURSIVE Choices(_)
Choices(tasks) ==
    IF Len(tasks) = 0 THEN {<<>>}
    ELSE {<<r>> \o rest : r \in tasks[1], rest \in Choices(Tail(tasks))}

----------------------------------------------------------------------------
(* The schema the namespace manager serves. *)

NoRewrite == [op |-> "nil", children |-> <<>>]

Union(children) == [op |-> "union", children |-> children]

Intersection(children) == [op |-> "intersection", children |-> children]

Exclusion(children) == [op |-> "exclusion", children |-> children]

XThis == [kind |-> "this", rel |-> "", tupleset |-> "", rw |-> NoRewrite]

ComputedUserset(rel) == [kind |-> "cu", rel |-> rel, tupleset |-> "", rw |-> NoRewrite]

TupleToUserset(tupleset, rel) ==
    [kind |-> "ttu", rel |-> rel, tupleset |-> tupleset, rw |-> NoRewrite]

UsersetRewrite(rw) == [kind |-> "rewrite", rel |-> "", tupleset |-> "", rw |-> rw]

Relation(name, allowed, rewrite) ==
    [name |-> name, allowed |-> allowed, rewrite |-> rewrite]

User == RelationReference("user", Ellipsis)

Namespaces == {"user", "group", "team", "folder", "document"}

\* definition user {}
\* definition group { relation member: group#member }
\* definition team { relation member: user }
\* definition folder { relation read: user }
\* definition document {
\*   relation viewer: user | team#member     relation editor: user
\*   relation banned: user                   relation parent: folder
\*   relation commenter: user = _this + (viewer & editor)
\*   reader = viewer + editor     both = viewer & editor
\*   allowed = viewer - banned    read = reader + parent->read
\*   ca = cb                      cb = ca
\*   nobody = an exclusion with no children }
NamespaceDefinition(ns) ==
    CASE ns = "user" -> <<>>
      [] ns = "group" ->
            <<Relation("member", <<RelationReference("group", "member")>>, NoRewrite)>>
      [] ns = "team" -> <<Relation("member", <<User>>, NoRewrite)>>
      [] ns = "folder" -> <<Relation("read", <<User>>, NoRewrite)>>
      [] ns = "document" ->
            <<Relation("viewer", <<User, RelationReference("team", "member")>>, NoRewrite),
              Relation("editor", <<User>>, NoRewrite),
              Relation("banned", <<User>>, NoRewrite),
              Relation("parent", <<RelationReference("folder", Ellipsis)>>, NoRewrite),
              Relation("commenter", <<User>>,
                       Union(<<XThis,
                               UsersetRewrite(Intersection(<<ComputedUserset("viewer"),
                                                             ComputedUserset("editor")>>))>>)),
              Relation("reader", <<>>,
                       Union(<<ComputedUserset("viewer"), ComputedUserset("editor")>>)),
              Relation("both", <<>>,
                       Intersection(<<ComputedUserset("viewer"), ComputedUserset("editor")>>)),
              Relation("allowed", <<>>,
                       Exclusion(<<ComputedUserset("viewer"), ComputedUserset("banned")>>)),
              Relation("read", <<>>,
                       Union(<<ComputedUserset("reader"), TupleToUserset("parent", "read")>>)),
              Relation("ca", <<>>, Union(<<ComputedUserset("cb")>>)),
              Relation("cb", <<>>, Union(<<ComputedUserset("ca")>>)),
              Relation("nobody", <<>>, Exclusion(<<>>))>>

findRelation(nsdef, relationName) ==
    LET hits == {i \in DOMAIN nsdef : nsdef[i].name = relationName}
    IN  IF hits = {} THEN <<>>
        ELSE <<nsdef[CHOOSE i \in hits : \A j \in hits : i <= j]>>

\* TypeSystem.HasRelation
HasRelation(ns, rel) == findRelation(NamespaceDefinition(ns), rel) # <<>>

\* TypeSystem.AllowedDirectRelations: the allowed subject types of the relation,
\* in the order the schema lists them.
AllowedDirectRelations(ns, rel) ==
    LET found == findRelation(NamespaceDefinition(ns), rel)
    IN  IF found = <<>> THEN <<>> ELSE found[1].allowed

\* TypeSystem.IsAllowedDirectRelation = DirectRelationValid
IsAllowedDirectRelation(ns, rel, subjectNs, subjectRel) ==
    RelationReference(subjectNs, subjectRel) \in Range(AllowedDirectRelations(ns, rel))

----------------------------------------------------------------------------
(* The datastore: tuple queries at the request's revision. *)

\* ReverseQueryTuplesFromSubject(subject).WithObjectRelation(ns, rel): the
\* tuples the query matches.
ReverseQueryTuplesFromSubject(subject, ns, rel) ==
    {t \in tuples : t.sub = subject /\ t.obj.ns = ns /\ t.obj.rel = rel}

\* QueryTuples(ns).WithRelation(rel).WithUsersets(usersets): the tuples the
\* query matches.
QueryTuples(ns, rel, usersets) ==
    {t \in tuples : t.obj.ns = ns /\ t.obj.rel = rel /\ t.sub \in usersets}

Min(a, b) == IF a < b THEN a ELSE b

ObjectsOf(ts) == {t.obj : t \in ts}

\* One run of the loop
\*     for tpl := it.Next(); tpl != nil; tpl = it.Next() {
\*         objects.Add(tpl.ObjectAndRelation)
\*         if objects.Length() >= limit { break } }
\* over an iterator of the matching tuples, of which the query yields at most
\* queryLimit, in an order the datastore chooses. A failing iterator stops
\* yielding after any number of tuples: Next returns nil and Err is set.
\* Yields [objs |-> the objects added, err |-> it.Err() != nil after the loop].
Iterate(matching, queryLimit, limit) ==
    LET most == Min(queryLimit, Cardinality(matching))
        yields == {Y \in SUBSET matching : Cardinality(Y) <= most}
    IN  IF fault = "iterate"
        THEN {[objs |-> ObjectsOf(Y), err |-> Cardinality(ObjectsOf(Y)) < limit] :
                Y \in {Z \in yields : Cardinality(ObjectsOf(Z)) <= limit}}
        ELSE {[objs |-> ObjectsOf(Y), err |-> FALSE] :
                Y \in {Z \in yields :
                        /\ Cardinality(ObjectsOf(Z)) <= limit
                        /\ \/ Cardinality(Z) = most
                           \/ Cardinality(ObjectsOf(Z)) = limit}}

\* The struct literal LookupResult{Err: err, ResolvedObjects: objs}.
LookupResult(err, objs, ev) == IF err = "nil" THEN Ok(objs, ev) ELSE Err(err, ev)

IterEv(it) == IF it.err THEN {"query", "iterErr"} ELSE {"query"}

----------------------------------------------------------------------------
(* The combinators, as functions of the results rs[1..n] their n tasks      *)
(* deliver, with the surrounding context live.  A task that panics takes    *)
(* the process down, whether or not the combinator still waits for it.      *)

AnyPanic(rs) == \E i \in DOMAIN rs : rs[i].kind = "panic"

PanicRace(rs) == IF AnyPanic(rs) THEN {Panic(AllEv(rs))} ELSE {}

\* LookupOne: the result of the one task.
LookupOne(rs) == {rs[1]}

RECURSIVE AnyFrom(_, _, _, _)
AnyFrom(limit, rs, i, objects) ==
    IF i > Len(rs)
    THEN {Ok(T, AllEv(rs)) : T \in limitedAsSlice(objects, limit)}
    ELSE IF rs[i].kind = "panic" THEN {Panic(AllEv(rs))}
    ELSE IF rs[i].kind = "err" THEN {Err(rs[i].err, AllEv(rs))}
    ELSE LET updated == objects \cup rs[i].objs
         IN  IF Cardinality(updated) >= limit
             THEN {Ok(T, AllEv(rs)) : T \in limitedAsSlice(updated, limit)}
             ELSE AnyFrom(limit, rs, i + 1, updated)

\* LookupAny: the channels are received from in the order of the requests.
LookupAny(limit, rs) == AnyFrom(limit, rs, 1, {}) \cup PanicRace(rs)

\* LookupAll receives on one shared channel: order[i] is the task whose result
\* arrives i-th.
RECURSIVE AllFrom(_, _, _, _)
AllFrom(rs, order, i, objs) ==
    IF i > Len(order) THEN {Ok(objs, AllEv(rs))}
    ELSE LET res == rs[order[i]]
         IN  IF res.kind = "panic" THEN {Panic(AllEv(rs))}
             ELSE IF res.kind = "err" THEN {Err(res.err, AllEv(rs))}
             ELSE LET inter == IF i = 1 THEN res.objs ELSE objs \cap res.objs
                  IN  IF inter = {} THEN {Ok({}, AllEv(rs))}
                      ELSE AllFrom(rs, order, i + 1, inter)

LookupAll(limit, rs) ==
    IF Len(rs) = 0 THEN {Ok({}, {})}
    ELSE UNION {AllFrom(rs, order, 1, {}) : order \in AsSlice(DOMAIN rs)}
            \cup PanicRace(rs)

\* LookupExclude receives n results, the base's on its own channel; the first
\* error received is returned.  With no request, make(chan, -1) panics.
LookupExclude(limit, rs) ==
    IF Len(rs) = 0 THEN {Panic({})}
    ELSE LET errs == {i \in DOMAIN rs : rs[i].kind = "err"}
             excSet == UNION {rs[i].objs : i \in DOMAIN rs \ {1}}
         IN  IF AnyPanic(rs) \/ errs # {}
             THEN {Err(rs[i].err, AllEv(rs)) : i \in errs} \cup PanicRace(rs)
             ELSE {Ok(T, AllEv(rs)) : T \in limitedAsSlice(rs[1].objs \ excSet, limit)}

\* reducer(ctx, limit, requests), for the reducer processRewrite picked.
Reduce(reducer, limit, rs) ==
    CASE reducer = "LookupAny" -> LookupAny(limit, rs)
      [] reducer = "LookupAll" -> LookupAll(limit, rs)
      [] reducer = "LookupExclude" -> LookupExclude(limit, rs)

\* A task that sends reducer(ctx, limit, requests) for tasks given by their
\* outcomes.
ReduceTasks(reducer, limit, tasks) ==
    UNION {Reduce(reducer, limit, rs) : rs \in Choices(tasks)}

\* The end of lookupDirect and of processTupleToUserset: the empty result
\* when no request was built, else the task that sends LookupAny of them.
AnyOfRequests(limit, requests) ==
    IF Len(requests) = 0 THEN ResolvedObjects({})
    ELSE ReduceTasks("LookupAny", limit, requests)

----------------------------------------------------------------------------
(* concurrentLookup. *)

LookupRequest(target, start, limit, rev, depth, directStack, ttuStack) ==
    [target |-> target, start |-> start, limit |-> limit, atRevision |-> rev,
     depth |-> depth, directStack |-> directStack, ttuStack |-> ttuStack]

RECURSIVE lookup(_)
RECURSIVE DispatcherLookup(_)
RECURSIVE dispatch(_)
RECURSIVE inferredTask(_, _, _)
RECURSIVE lookupDirect(_)
RECURSIVE lookupComputed(_, _)
RECURSIVE ttuTask(_, _, _)
RECURSIVE processTupleToUserset(_, _)
RECURSIVE setOperationChild(_, _)
RECURSIVE processSetOperation(_, _, _)
RECURSIVE processRewrite(_, _)
RECURSIVE structuralLookup(_)
RECURSIVE closureStep(_, _, _)

\* Dispatcher.Lookup: a request with no depth remaining fails before any
\* work is done on it; any other request is driven by LookupOne.
DispatcherLookup(r) ==
    IF r.depth < 1 THEN {Err("max depth exceeded", {})}
    ELSE UNION {LookupOne(<<res>>) : res \in lookup(r)}

\* A dispatch that calls lookup itself, past the dispatcher.
dispatchToLookup(r) == lookup(r)

\* cl.dispatch: the task that sends cl.d.Lookup(ctx, req).
dispatch(r) == DispatcherLookup(r)

\* The task of lookupDirect that queries the tuples whose subject is the target.
directTask(r) ==
    IF fault = "execute" THEN {LookupResult("datastore", {}, {"query"})}
    ELSE LET execErr == "nil"   \* err of Execute, nil once the iterator is open
         IN  {IF it.err
              THEN LookupResult(execErr, {}, IterEv(it))
              ELSE LookupResult("nil", it.objs, IterEv(it)) :
                it \in Iterate(ReverseQueryTuplesFromSubject(
                                   r.target, r.start.ns, r.start.rel),
                               noLimit, r.limit)}

\* An inferred request that is given the depth of the request it is built for.
inferredRequestSameDepth(r, directStack, allowedDirectType) ==
    LookupRequest(r.target, allowedDirectType, noLimit, r.atRevision,
                  r.depth, directStack, r.ttuStack)

\* The request lookupDirect dispatches for an allowed direct subject type.
inferredRequest(r, directStack, allowedDirectType) ==
    LookupRequest(r.target, allowedDirectType, noLimit, r.atRevision,
                  r.depth - 1, directStack, r.ttuStack)

\* The task of lookupDirect for one allowed direct subject type: look the
\* target up on that type, then query the tuples of the start relation whose
\* subject is one of the objects found.
inferredTask(r, directStack, allowedDirectType) ==
    UNION {IF res.kind # "ok" THEN {res}
           ELSE IF res.objs = {} THEN {LookupResult("nil", {}, res.ev)}
           ELSE IF fault = "execute"
                THEN {LookupResult("datastore", {}, res.ev \cup {"query"})}
           ELSE {LookupResult("nil", it.objs, res.ev \cup IterEv(it)) :
                   it \in Iterate(QueryTuples(r.start.ns, r.start.rel, res.objs),
                                  r.limit, r.limit)} :
             res \in ReduceTasks("LookupAny", noLimit,
                                 <<dispatch(inferredRequest(r, directStack,
                                                            allowedDirectType))>>)}

\* The allowed direct subject types lookupDirect dispatches on.
inferredTypes(r, directStack) ==
    SelectSeq(AllowedDirectRelations(r.start.ns, r.start.rel),
              LAMBDA t : /\ t.rel # Ellipsis
                         /\ ~(t.ns = r.start.ns /\ t.rel = r.start.rel)
                         /\ ~Has(directStack, t))

lookupDirect(r) ==
    LET isDirectAllowed ==
            IsAllowedDirectRelation(r.start.ns, r.start.rel, r.target.ns, r.target.rel)
        directStack == With(r.directStack, RelationReference(r.start.ns, r.start.rel))
        types == inferredTypes(r, directStack)
    IN  AnyOfRequests(r.limit,
                      (IF isDirectAllowed THEN <<directTask(r)>> ELSE <<>>)
                      \o [i \in 1..Len(types) |->
                            inferredTask(r, directStack, types[i])])

\* The request lookupComputed dispatches.
computedRequest(r, cu) ==
    LookupRequest(r.target, RelationReference(r.start.ns, cu.rel), r.limit,
                  r.atRevision, r.depth - 1,
                  With(r.directStack, RelationReference(r.start.ns, r.start.rel)),
                  r.ttuStack)

\* lookupComputed that returns the resolved objects as dispatched found them.
lookupComputedNotRewritten(r, cu) ==
    UNION {IF res.kind = "err" THEN ResolveError(res.err, res.ev) ELSE {res} :
             res \in dispatch(computedRequest(r, cu))}

lookupComputed(r, cu) ==
    UNION {IF res.kind = "panic" THEN {res}
           ELSE IF res.kind = "err" THEN ResolveError(res.err, res.ev)
           ELSE IF \E o \in res.objs : o.ns # r.start.ns
                THEN ResolveError("invalid namespace", res.ev)
           ELSE {Ok({ONR(o.ns, o.id, r.start.rel) : o \in res.objs}, res.ev)} :
             res \in UNION {LookupOne(<<d>>) : d \in dispatch(computedRequest(r, cu))}}

\* A request of processTupleToUserset that starts from an empty direct stack.
computedUsersetRequestNewStack(r, ns, ttu) ==
    LookupRequest(r.target, RelationReference(ns, ttu.rel), noLimit, r.atRevision,
                  r.depth - 1, {},
                  With(r.ttuStack, RelationReference(r.start.ns, r.start.rel)))

\* The request processTupleToUserset dispatches for a subject namespace.
computedUsersetRequest(r, ns, ttu) ==
    LookupRequest(r.target, RelationReference(ns, ttu.rel), noLimit, r.atRevision,
                  r.depth - 1, r.directStack,
                  With(r.ttuStack, RelationReference(r.start.ns, r.start.rel)))

\* The usersets processTupleToUserset queries the tupleset for.
ttuUsersets(r, ttu, resolvedObjects) ==
    UNION {{ONR(o.ns, o.id, rel) :
              rel \in {a \in {o.rel} :
                         IsAllowedDirectRelation(r.start.ns, ttu.tupleset, o.ns, o.rel)}
                      \cup {a \in {Ellipsis} :
                              /\ o.rel # Ellipsis
                              /\ IsAllowedDirectRelation(r.start.ns, ttu.tupleset,
                                                         o.ns, Ellipsis)}} :
           o \in resolvedObjects}

\* The task of processTupleToUserset for one subject namespace.
ttuTask(r, ns, ttu) ==
    UNION {IF res.kind # "ok" \/ res.objs = {} THEN {res}
           ELSE LET usersets == ttuUsersets(r, ttu, res.objs)
                IN  IF usersets = {} THEN {LookupResult("nil", {}, res.ev)}
                    ELSE IF fault = "execute"
                         THEN {LookupResult("datastore", {}, res.ev \cup {"query"})}
                    ELSE {IF \E o \in it.objs : o.ns # r.start.ns
                          THEN LookupResult("got unexpected namespace", {},
                                            res.ev \cup IterEv(it))
                          ELSE LookupResult("nil",
                                            {ONR(r.start.ns, o.id, r.start.rel) :
                                               o \in it.objs},
                                            res.ev \cup IterEv(it)) :
                            it \in Iterate(QueryTuples(r.start.ns, ttu.tupleset, usersets),
                                           r.limit, r.limit)} :
             res \in ReduceTasks("LookupAny", noLimit,
                                 <<dispatch(computedUsersetRequest(r, ns, ttu))>>)}

\* The subject namespaces processTupleToUserset dispatches to: each namespace of
\* an allowed subject type of the tupleset that has the computed relation, once.
ttuNamespaces(r, ttu) ==
    LET direct == AllowedDirectRelations(r.start.ns, ttu.tupleset)
    IN  SelectSeq([i \in DOMAIN direct |->
                     IF \E j \in 1..(i - 1) :
                          /\ direct[j].ns = direct[i].ns
                          /\ HasRelation(direct[j].ns, ttu.rel)
                     THEN "" ELSE direct[i].ns],
                  LAMBDA ns : ns # "" /\ HasRelation(ns, ttu.rel))

\* processTupleToUserset that does not look at the request's TTUStack.
processTupleToUsersetAnyStack(r, ttu) ==
    LET nss == ttuNamespaces(r, ttu)
    IN  AnyOfRequests(r.limit, [i \in 1..Len(nss) |-> ttuTask(r, nss[i], ttu)])

processTupleToUserset(r, ttu) ==
    IF Has(r.ttuStack, RelationReference(r.start.ns, r.start.rel))
    THEN ResolvedObjects({})
    ELSE LET nss == ttuNamespaces(r, ttu)
         IN  AnyOfRequests(r.limit, [i \in 1..Len(nss) |-> ttuTask(r, nss[i], ttu)])

\* The task of one child of a set operation.
setOperationChild(r, child) ==
    CASE child.kind = "this" -> lookupDirect(r)
      [] child.kind = "cu" -> lookupComputed(r, child)
      [] child.kind = "rewrite" -> processRewrite(r, child.rw)
      [] child.kind = "ttu" -> processTupleToUserset(r, child)
      [] OTHER -> ResolveError("unknown set operation child", {})

\* lookupComputed runs while the requests are built: a panic in it ends the
\* process before the reducer is called.
processSetOperation(r, so, reducer) ==
    LET requests == [i \in DOMAIN so.children |-> setOperationChild(r, so.children[i])]
    IN  IF \E i \in DOMAIN so.children :
              so.children[i].kind \notin {"this", "cu", "rewrite", "ttu"}
        THEN ResolveError("unknown set operation child", {})
        ELSE UNION {IF \E i \in DOMAIN rs :
                         so.children[i].kind = "cu" /\ rs[i].kind = "panic"
                    THEN {Panic(AllEv(rs))}
                    ELSE Reduce(reducer, r.limit, rs) :
                      rs \in Choices(requests)}

\* The reducer processRewrite passes for a rewrite operation.
reducerOf(op) ==
    CASE op = "union" -> "LookupAny"
      [] op = "intersection" -> "LookupAll"
      [] op = "exclusion" -> "LookupExclude"

processRewrite(r, usr) ==
    IF usr.op \in {"union", "intersection", "exclusion"}
    THEN processSetOperation(r, usr, reducerOf(usr.op))
    ELSE ResolveError("unknown userset rewrite kind", {})

\* The self-match of lookup: the target, when it is of the start relation.
selfMatch(r) ==
    IF r.start.ns = r.target.ns /\ r.start.rel = r.target.rel THEN {r.target} ELSE {}

\* lookup up to objSet.Update(result.ResolvedObjects): the result of the
\* structural lookup, or the task lookup returns instead.
structuralLookup(r) ==
    IF r.start.ns \notin Namespaces
    THEN {[returned |-> TRUE, res |-> res] :
            res \in ResolveError("namespace not found", {})}
    ELSE LET found == findRelation(NamespaceDefinition(r.start.ns), r.start.rel)
         IN  IF found = <<>>
             THEN {[returned |-> TRUE, res |-> res] :
                     res \in ResolveError("relation not found", {})}
             ELSE LET request == IF found[1].rewrite # NoRewrite
                                 THEN processRewrite(r, found[1].rewrite)
                                 ELSE lookupDirect(r)
                  IN  UNION {IF res.kind = "panic"
                             THEN {[returned |-> TRUE, res |-> res]}
                             ELSE IF res.kind = "err"
                             THEN {[returned |-> TRUE, res |-> e] :
                                     e \in ResolveError(res.err, res.ev)}
                             ELSE {[returned |-> FALSE, res |-> res]} :
                               res \in ReduceTasks("LookupAny", r.limit, <<request>>)}

\* The test of the closure loop that never finds obj to be the target.
isTargetNever(r, obj) == FALSE

\* The test of the closure loop whether obj is the target of the request.
isTarget(r, obj) ==
    obj.ns = r.target.ns /\ obj.rel = r.target.rel /\ obj.id = r.target.id

\* A sub-request of the closure loop that is given the limit of the request.
closureRequestWholeLimit(r, obj, objs) ==
    LookupRequest(obj, r.start, r.limit, r.atRevision,
                  r.depth - 1, r.directStack, r.ttuStack)

\* The sub-request the closure loop of lookup builds for obj.
closureRequest(r, obj, objs) ==
    LookupRequest(obj, r.start, r.limit - Cardinality(objs), r.atRevision,
                  r.depth - 1, r.directStack, r.ttuStack)

\* A loop test that looks at toCheck only.
loopEndsOnEmpty(r, objs, check) == check = {}

\* The test at the head of the closure loop: nothing is left to check, or
\* objSet has reached the limit.
loopEnds(r, objs, check) == check = {} \/ Cardinality(objs) >= r.limit

\* One pass of the closure loop of lookup, from the loop test to the end of
\* the body: "break", "return" of a task delivering res, or "next" with the
\* updated sets.  calls are the sub-requests dispatched, each with the result
\* it delivers.
closureStep(r, objs, check) ==
    LET Step(kind, objSet2, toCheck2, res, calls) ==
            [kind |-> kind, objSet |-> objSet2, toCheck |-> toCheck2,
             res |-> res, calls |-> calls]
    IN
    IF loopEnds(r, objs, check)
    THEN {Step("break", objs, check, NoResult, {})}
    ELSE UNION {
           LET targets == SelectSeq(slice, LAMBDA obj : ~isTarget(r, obj))
               requests == [i \in 1..Len(targets) |->
                              dispatch(closureRequest(r, targets[i], objs))]
               readErr == "nil"  \* err of ReadNamespaceAndTypes, nil in the loop
           IN  IF Len(targets) = 0
               THEN {Step("break", objs, check, NoResult, {})}
               ELSE UNION {
                      LET calls == {[req |-> closureRequest(r, targets[i], objs),
                                     res |-> rs[i]] : i \in DOMAIN rs}
                      IN  UNION {
                            IF res.kind = "panic"
                            THEN {Step("return", objs, check, res, calls)}
                            ELSE IF res.kind = "err"
                            THEN {Step("return", objs, check, e, calls) :
                                    e \in ResolveError(readErr, res.ev)}
                            ELSE {Step("next", objs \cup res.objs, res.objs \ objs,
                                       res, calls)} :
                            res \in Reduce("LookupAny", r.limit, rs)} :
                      rs \in Choices(requests)} :
           slice \in AsSlice(check)}

\* The closure loop of lookup and its return.
RECURSIVE closureLoop(_, _, _, _)
closureLoop(r, objs, check, ev) ==
    UNION {CASE step.kind = "break" ->
                  {Ok(T, ev) : T \in limitedAsSlice(objs, r.limit)}
             [] step.kind = "next" ->
                  closureLoop(r, step.objSet, step.toCheck, ev \cup step.res.ev)
             [] OTHER -> {[step.res EXCEPT !.ev = ev \cup step.res.ev]} :
           step \in closureStep(r, objs, check)}

lookup(r) ==
    UNION {IF s.returned THEN {s.res}
           ELSE closureLoop(r, selfMatch(r) \cup s.res.objs,
                            selfMatch(r) \cup s.res.objs, s.res.ev) :
           s \in structuralLookup(r)}

----------------------------------------------------------------------------
(* The requests and datastore contents the model is run on. *)

Revision == "r1"

alice == ONR("user", "alice", Ellipsis)

Group(id) == ONR("group", id, "member")

Doc(id, rel) == ONR("document", id, rel)

team == ONR("team", "t", "member")

folder(rel) == ONR("folder", "f", rel)

GroupIds == {"a", "b", "c"}

DocIds == {"1", "2"}

\* For a start relation: the targets looked up on it and the tuples the
\* datastore may hold.
Scenarios ==
    {[start |-> RelationReference("user", Ellipsis), targets |-> {alice},
      universe |-> {Tuple(team, alice)}],
     [start |-> RelationReference("group", "member"), targets |-> {Group("a")},
      universe |-> {Tuple(Group(x), Group(y)) :
                      <<x, y>> \in {p \in GroupIds \X GroupIds : p[1] # p[2]}}],
     [start |-> RelationReference("document", "viewer"),
      targets |-> {alice, Doc("1", "viewer")},
      universe |-> {Tuple(Doc(d, "viewer"), sub) :
                      <<d, sub>> \in DocIds \X {alice, team}}
                   \cup {Tuple(team, alice)}],
     [start |-> RelationReference("document", "commenter"), targets |-> {alice},
      universe |-> {Tuple(Doc(d, rel), alice) :
                      <<d, rel>> \in {"1"} \X {"viewer", "editor"}}
                   \cup {Tuple(Doc(d, "commenter"), alice) : d \in DocIds}],
     [start |-> RelationReference("document", "reader"), targets |-> {alice},
      universe |-> {Tuple(Doc(d, rel), alice) :
                      <<d, rel>> \in DocIds \X {"viewer", "editor"}}],
     [start |-> RelationReference("document", "both"), targets |-> {alice},
      universe |-> {Tuple(Doc(d, rel), alice) :
                      <<d, rel>> \in DocIds \X {"viewer", "editor"}}],
     [start |-> RelationReference("document", "allowed"), targets |-> {alice},
      universe |-> {Tuple(Doc(d, rel), alice) :
                      <<d, rel>> \in DocIds \X {"viewer", "banned"}}],
     [start |-> RelationReference("document", "read"), targets |-> {alice},
      universe |-> {Tuple(Doc(d, "parent"), folder(Ellipsis)) : d \in DocIds}
                   \cup {Tuple(folder("read"), alice),
                         Tuple(Doc("1", "viewer"), alice)}],
     [start |-> RelationReference("document", "nobody"), targets |-> {alice},
      universe |-> {Tuple(Doc("1", "viewer"), alice)}]}

Faults == {"none", "execute", "iterate"}

\* For a start relation: the targets looked up on it, the tuples the datastore
\* may hold, and the references the stacks of the request may hold.
StackedScenarios ==
    {[start |-> RelationReference("document", "viewer"), targets |-> {alice},
      universe |-> {Tuple(Doc("1", "viewer"), alice), Tuple(Doc("1", "viewer"), team),
                    Tuple(team, alice)},
      refs |-> {RelationReference("document", "viewer"),
                RelationReference("team", "member")}],
     [start |-> RelationReference("document", "read"), targets |-> {alice},
      universe |-> {Tuple(Doc("1", "parent"), folder(Ellipsis)),
                    Tuple(folder("read"), alice),
                    Tuple(Doc("1", "viewer"), alice)},
      refs |-> {RelationReference("document", "read"),
                RelationReference("folder", "read")}],
     [start |-> RelationReference("document", "ca"), targets |-> {alice},
      universe |-> {Tuple(Doc("1", "viewer"), alice)},
      refs |-> {RelationReference("document", "ca"),
                RelationReference("document", "cb")}]}

----------------------------------------------------------------------------
(* lookup, run on one request. *)

\* No combinator other than LookupAny is run alone.
IdleReduce ==
    /\ redLimit = 0
    /\ redPc = "idle"
    /\ redCount = 0
    /\ redObjSet = {}
    /\ redExcSet = {}
    /\ sharedChan = <<>>
    /\ baseChan = <<>>
    /\ redResult = NoResult

\* No task is run alone.
IdleTask ==
    /\ tKind = "none"
    /\ tLimit = 0
    /\ tPc = "done"
    /\ tThen = "return"
    /\ tSent = 0
    /\ tIter = "none"
    /\ tRecv = "gone"
    /\ tObjects = 0
    /\ tResolved = 0
    /\ tUsersets = FALSE

Init ==
    /\ \E sc \in Scenarios :
         /\ tuples \in SUBSET sc.universe
         /\ \E target \in sc.targets, limit \in 1..MaxLimit, depth \in 0..MaxDepth :
              req = LookupRequest(target, sc.start, limit, Revision, depth, {}, {})
    /\ fault \in Faults
    /\ pc = "start"
    /\ objSet = {}
    /\ toCheck = {}
    /\ result = NoResult
    /\ resolved = <<>>
    /\ dispatched = {}
    /\ inputs = <<>>
    /\ anyLimit = 0
    /\ taskPc = <<>>
    /\ anyPc = "idle"
    /\ chanIdx = 0
    /\ anyObjects = {}
    /\ ctxDone = FALSE
    /\ childDone = FALSE
    /\ anyResult = NoResult
    /\ anySlice = <<>>
    /\ ctxDoneEarly = FALSE
    /\ combinator = "none"
    /\ IdleReduce
    /\ IdleTask

\* lookup from its entry to objSet.Update(result.ResolvedObjects).
Structural ==
    /\ pc = "start"
    /\ \E s \in structuralLookup(req) :
         IF s.returned
         THEN /\ pc' = "done"
              /\ result' = s.res
              /\ UNCHANGED <<objSet, toCheck>>
         ELSE /\ pc' = "loop"
              /\ objSet' = selfMatch(req) \cup s.res.objs
              /\ toCheck' = selfMatch(req) \cup s.res.objs
              /\ result' = [NoResult EXCEPT !.ev = s.res.ev]
    /\ UNCHANGED <<tuples, fault, req, resolved, dispatched, anyVars, redVars,
                   taskVars>>

\* One pass of the closure loop of lookup.
ClosureLoop ==
    /\ pc = "loop"
    /\ \E step \in closureStep(req, objSet, toCheck) :
         /\ objSet' = step.objSet
         /\ toCheck' = step.toCheck
         /\ dispatched' = dispatched \cup step.calls
         /\ CASE step.kind = "break" ->
                   /\ pc' = "return"
                   /\ UNCHANGED result
              [] step.kind = "next" ->
                   /\ pc' = "loop"
                   /\ result' = [result EXCEPT !.ev = @ \cup step.res.ev]
              [] OTHER ->
                   /\ pc' = "done"
                   /\ result' = [step.res EXCEPT !.ev = @ \cup result.ev]
    /\ UNCHANGED <<tuples, fault, req, resolved, anyVars, redVars,
                   taskVars>>

\* return ResolvedObjects(limitedSlice(objSet.AsSlice(), req.Limit))
Return ==
    /\ pc = "return"
    /\ \E slice \in limitedSlices(objSet, req.limit) :
         /\ resolved' = slice
         /\ result' = Ok(Range(slice), result.ev)
    /\ pc' = "done"
    /\ UNCHANGED <<tuples, fault, req, objSet, toCheck, dispatched, anyVars, redVars,
                   taskVars>>

Next == Structural \/ ClosureLoop \/ Return

Spec == Init /\ [][Next]_vars

\* No combinator is run alone.
IdleCombinators ==
    /\ inputs = <<>>
    /\ anyLimit = 0
    /\ taskPc = <<>>
    /\ anyPc = "idle"
    /\ chanIdx = 0
    /\ anyObjects = {}
    /\ ctxDone = FALSE
    /\ childDone = FALSE
    /\ anyResult = NoResult
    /\ anySlice = <<>>
    /\ ctxDoneEarly = FALSE
    /\ combinator = "none"
    /\ IdleReduce

\* lookup at its entry, on a request that is a sub-request of others: its
\* stacks hold the references the requests above it left there, and its
\* limit is one a request passes on or noLimit.
InitStacked ==
    /\ \E sc \in StackedScenarios :
         /\ tuples \in SUBSET sc.universe
         /\ \E target \in sc.targets, limit \in (1..MaxLimit) \cup {noLimit},
               depth \in 0..MaxDepth,
               directStack \in SUBSET sc.refs, ttuStack \in SUBSET sc.refs :
              req = LookupRequest(target, sc.start, limit, Revision, depth,
                                  directStack, ttuStack)
    /\ fault = "none"
    /\ pc = "start"
    /\ objSet = {}
    /\ toCheck = {}
    /\ result = NoResult
    /\ resolved = <<>>
    /\ dispatched = {}
    /\ IdleCombinators
    /\ IdleTask

SpecStacked == InitStacked /\ [][Next]_vars

----------------------------------------------------------------------------
(* LookupAny, run alone on requests that each deliver one given result:    *)
(* one goroutine per request, each with its own unbuffered channel, and    *)
(* the loop over resultChans that receives from them in list order.        *)

RequestCanceledErr == "request canceled"

\* The ONRs the given results are made of.
ResultObjects == {Group("a"), Group("b")}

\* The results a request may deliver: a list of ONRs, or one of two errors.
Results ==
    {Ok(S, {}) : S \in SUBSET ResultObjects} \cup {Err("e1", {}), Err("e2", {})}

RECURSIVE SeqsUpTo(_, _)
SeqsUpTo(S, n) ==
    IF n = 0 THEN {<<>>}
    ELSE SeqsUpTo(S, n - 1)
            \cup {Append(q, x) : q \in {w \in SeqsUpTo(S, n - 1) : Len(w) = n - 1},
                                 x \in S}

\* lookup is not run.
IdleLookup ==
    /\ tuples = {}
    /\ fault = "none"
    /\ req = LookupRequest(Group("a"), RelationReference("group", "member"),
                           1, Revision, 1, {}, {})
    /\ pc = "done"
    /\ objSet = {}
    /\ toCheck = {}
    /\ result = NoResult
    /\ resolved = <<>>
    /\ dispatched = {}

\* LookupAny has started a goroutine for each request and stands at the loop
\* over resultChans.
StartAny ==
    /\ combinator = "LookupAny"
    /\ anyLimit \in 1..MaxLimit
    /\ anyPc = "receive"
    /\ chanIdx = 1
    /\ anyObjects = {}
    /\ anyResult = NoResult
    /\ anySlice = <<>>

InitAny ==
    /\ IdleLookup
    /\ IdleReduce
    /\ IdleTask
    /\ inputs \in SeqsUpTo(Results, MaxRequests)
    /\ taskPc = [k \in DOMAIN inputs |-> "running"]
    /\ StartAny
    /\ ctxDone \in BOOLEAN
    /\ ctxDoneEarly = (ctxDone /\ Len(inputs) >= 1)
    /\ childDone = FALSE

\* The goroutine of request k reaches its send on its unbuffered result
\* channel (resultChans[k] of LookupAny, resultChan of LookupOne), where it
\* waits for the combinator to receive.
TaskSend(k) ==
    /\ combinator \in {"LookupAny", "LookupOne"}
    /\ taskPc[k] = "running"
    /\ taskPc' = [taskPc EXCEPT ![k] = "sending"]
    /\ UNCHANGED <<lookupVars, taskVars, redVars, inputs, anyLimit, anyPc, chanIdx, anyObjects,
                   ctxDone, childDone, anyResult, anySlice, ctxDoneEarly, combinator>>

\* Whether the combinator stands at a select with a result still to receive.
NeedsResult ==
    CASE combinator = "LookupAny" -> anyPc = "receive" /\ chanIdx <= Len(inputs)
      [] combinator = "LookupOne" -> redPc = "receive"
      [] OTHER -> redPc = "receive" /\ redCount < Len(inputs)

\* The ctx the combinator was called with is cancelled.
CancelCtx ==
    /\ ~ctxDone
    /\ anyPc = "receive" \/ redPc = "receive"
    /\ ctxDone' = TRUE
    /\ ctxDoneEarly' = NeedsResult
    /\ UNCHANGED <<lookupVars, taskVars, redVars, inputs, anyLimit, taskPc, anyPc, chanIdx,
                   anyObjects, childDone, anyResult, anySlice, combinator>>

\* A select case that takes an error result for an empty list.
anyCaseErrorAsEmpty(res, objs, limit) ==
    IF Cardinality(objs \cup res.objs) >= limit
    THEN {[returned |-> TRUE, res |-> Ok(Range(sl), {}), slice |-> sl,
           objects |-> objs \cup res.objs] :
            sl \in limitedSlices(objs \cup res.objs, limit)}
    ELSE {[returned |-> FALSE, res |-> NoResult, slice |-> <<>>,
           objects |-> objs \cup res.objs]}

\* A select case that keeps only the ONRs of the result it received.
anyCaseLastOnly(res, objs, limit) ==
    IF res.kind = "err"
    THEN {[returned |-> TRUE, res |-> Err(res.err, {}), slice |-> <<>>, objects |-> objs]}
    ELSE IF Cardinality(res.objs) >= limit
         THEN {[returned |-> TRUE, res |-> Ok(Range(sl), {}), slice |-> sl,
                objects |-> res.objs] : sl \in limitedSlices(res.objs, limit)}
         ELSE {[returned |-> FALSE, res |-> NoResult, slice |-> <<>>,
                objects |-> res.objs]}

\* The case result := <-resultChan of LookupAny's select: what LookupAny does
\* with a received result, as [returned, res, slice, objects].
anyCase(res, objs, limit) ==
    IF res.kind = "err"
    THEN {[returned |-> TRUE, res |-> Err(res.err, {}), slice |-> <<>>, objects |-> objs]}
    ELSE LET updated == objs \cup res.objs
         IN  IF Cardinality(updated) >= limit
             THEN {[returned |-> TRUE, res |-> Ok(Range(sl), {}), slice |-> sl,
                    objects |-> updated] : sl \in limitedSlices(updated, limit)}
             ELSE {[returned |-> FALSE, res |-> NoResult, slice |-> <<>>,
                    objects |-> updated]}

\* LookupAny receives the result of request chanIdx.
AnyReceive ==
    /\ anyPc = "receive"
    /\ chanIdx <= Len(inputs)
    /\ taskPc[chanIdx] = "sending"
    /\ taskPc' = [taskPc EXCEPT ![chanIdx] = "returned"]
    /\ \E step \in anyCase(inputs[chanIdx], anyObjects, anyLimit) :
         /\ anyObjects' = step.objects
         /\ IF step.returned
            THEN /\ anyResult' = step.res
                 /\ anySlice' = step.slice
                 /\ anyPc' = "returned"
                 /\ childDone' = TRUE
                 /\ UNCHANGED chanIdx
            ELSE /\ chanIdx' = chanIdx + 1
                 /\ UNCHANGED <<anyResult, anySlice, anyPc, childDone>>
    /\ UNCHANGED <<lookupVars, taskVars, redVars, inputs, anyLimit, ctxDone, ctxDoneEarly, combinator>>

\* The case <-ctx.Done() of LookupAny's select.
AnyCtxDone ==
    /\ anyPc = "receive"
    /\ chanIdx <= Len(inputs)
    /\ ctxDone
    /\ anyResult' = Err(RequestCanceledErr, {})
    /\ anyPc' = "returned"
    /\ childDone' = TRUE
    /\ UNCHANGED <<lookupVars, taskVars, redVars, inputs, anyLimit, taskPc, chanIdx, anyObjects,
                   ctxDone, anySlice, ctxDoneEarly, combinator>>

\* The return of LookupAny after the loop.
AnyReturn ==
    /\ anyPc = "receive"
    /\ chanIdx > Len(inputs)
    /\ \E sl \in limitedSlices(anyObjects, anyLimit) :
         /\ anyResult' = Ok(Range(sl), {})
         /\ anySlice' = sl
    /\ anyPc' = "returned"
    /\ childDone' = TRUE
    /\ UNCHANGED <<lookupVars, taskVars, redVars, inputs, anyLimit, taskPc, chanIdx, anyObjects,
                   ctxDone, ctxDoneEarly, combinator>>

NextAny ==
    \/ \E k \in DOMAIN inputs : TaskSend(k)
    \/ CancelCtx
    \/ AnyReceive
    \/ AnyCtxDone
    \/ AnyReturn

SpecAny == InitAny /\ [][NextAny]_vars

----------------------------------------------------------------------------
(* The four combinators as processes: each request is a goroutine that     *)
(* sends its result, LookupOne and LookupAny receive on unbuffered         *)
(* channels, LookupAll and LookupExclude on buffered ones.                 *)

Combinators == {"LookupOne", "LookupAny", "LookupAll", "LookupExclude"}

\* LookupAny is not called.
IdleAny ==
    /\ anyLimit = 1
    /\ anyPc = "idle"
    /\ chanIdx = 1
    /\ anyObjects = {}
    /\ anyResult = NoResult
    /\ anySlice = <<>>

\* LookupOne, LookupAll or LookupExclude has started its goroutines and stands
\* at its select.
StartReduce ==
    /\ redLimit \in (IF combinator = "LookupOne" THEN {0} ELSE 1..MaxLimit)
    /\ redPc = "receive"
    /\ redCount = 0
    /\ redObjSet = {}
    /\ redExcSet = {}
    /\ sharedChan = <<>>
    /\ baseChan = <<>>
    /\ redResult = NoResult

InitReduce ==
    /\ IdleLookup
    /\ IdleTask
    /\ combinator \in Combinators
    /\ inputs \in SeqsUpTo(Results, MaxRequests)
    /\ combinator = "LookupOne" => Len(inputs) = 1
    /\ taskPc = [k \in DOMAIN inputs |-> "running"]
    /\ IF combinator = "LookupAny"
       THEN StartAny /\ IdleReduce
       ELSE IdleAny /\ StartReduce
    /\ ctxDone \in BOOLEAN
    /\ ctxDoneEarly = (ctxDone /\ Len(inputs) >= 1)
    /\ childDone = FALSE

\* The goroutine of request k sends its result into the buffer of its channel:
\* resultChan of LookupAll; baseChan for the first request of LookupExclude
\* and othersChan for its other requests.
TaskSendBuffered(k) ==
    /\ combinator \in {"LookupAll", "LookupExclude"}
    /\ taskPc[k] = "running"
    /\ taskPc' = [taskPc EXCEPT ![k] = "returned"]
    /\ IF combinator = "LookupExclude" /\ k = 1
       THEN baseChan' = Append(baseChan, k) /\ UNCHANGED sharedChan
       ELSE sharedChan' = Append(sharedChan, k) /\ UNCHANGED baseChan
    /\ UNCHANGED <<lookupVars, taskVars, inputs, anyLimit, anyPc, chanIdx, anyObjects, ctxDone,
                   childDone, anyResult, anySlice, ctxDoneEarly, combinator,
                   redLimit, redPc, redCount, redObjSet, redExcSet, redResult>>

\* The combinator returns res.
ReduceReturns(res) ==
    /\ redResult' = res
    /\ redPc' = "returned"
    /\ childDone' = TRUE

\* The case result := <-resultChan of LookupOne's select.
OneReceive ==
    /\ combinator = "LookupOne"
    /\ redPc = "receive"
    /\ taskPc[1] = "sending"
    /\ taskPc' = [taskPc EXCEPT ![1] = "returned"]
    /\ ReduceReturns(inputs[1])
    /\ redCount' = redCount + 1
    /\ UNCHANGED <<lookupVars, taskVars, inputs, anyLimit, anyPc, chanIdx, anyObjects, ctxDone,
                   anyResult, anySlice, ctxDoneEarly, combinator,
                   redLimit, redObjSet, redExcSet, sharedChan, baseChan>>

\* The case <-ctx.Done() of LookupOne's select.
OneCtxDone ==
    /\ combinator = "LookupOne"
    /\ redPc = "receive"
    /\ ctxDone
    /\ ReduceReturns(Err(RequestCanceledErr, {}))
    /\ UNCHANGED <<lookupVars, taskVars, inputs, anyLimit, taskPc, anyPc, chanIdx, anyObjects,
                   ctxDone, anyResult, anySlice, ctxDoneEarly, combinator,
                   redLimit, redCount, redObjSet, redExcSet, sharedChan, baseChan>>

\* The case result := <-resultChan of LookupAll's select, for the i-th
\* iteration of the loop (from 0), as [returned, res, objSet].
allCase(res, i, objs) ==
    IF res.kind = "err"
    THEN [returned |-> TRUE, res |-> res, objSet |-> objs]
    ELSE LET inter == IF i = 0 THEN res.objs ELSE objs \cap res.objs
         IN  IF inter = {}
             THEN [returned |-> TRUE, res |-> Ok({}, {}), objSet |-> inter]
             ELSE [returned |-> FALSE, res |-> NoResult, objSet |-> inter]

\* LookupAll receives the result at the head of resultChan.
AllReceive ==
    /\ combinator = "LookupAll"
    /\ redPc = "receive"
    /\ redCount < Len(inputs)
    /\ sharedChan # <<>>
    /\ sharedChan' = Tail(sharedChan)
    /\ redCount' = redCount + 1
    /\ LET step == allCase(inputs[Head(sharedChan)], redCount, redObjSet)
       IN  /\ redObjSet' = step.objSet
           /\ IF step.returned
              THEN ReduceReturns(step.res)
              ELSE UNCHANGED <<redResult, redPc, childDone>>
    /\ UNCHANGED <<lookupVars, taskVars, inputs, anyLimit, taskPc, anyPc, chanIdx, anyObjects,
                   ctxDone, anyResult, anySlice, ctxDoneEarly, combinator,
                   redLimit, redExcSet, baseChan>>

\* The case <-ctx.Done() of LookupAll's select.
AllCtxDone ==
    /\ combinator = "LookupAll"
    /\ redPc = "receive"
    /\ redCount < Len(inputs)
    /\ ctxDone
    /\ ReduceReturns(Err(RequestCanceledErr, {}))
    /\ UNCHANGED <<lookupVars, taskVars, inputs, anyLimit, taskPc, anyPc, chanIdx, anyObjects,
                   ctxDone, anyResult, anySlice, ctxDoneEarly, combinator,
                   redLimit, redCount, redObjSet, redExcSet, sharedChan, baseChan>>

\* The returns of LookupAll outside its loop: with no request, and after the
\* last result; the limit is not applied.
AllReturn ==
    /\ combinator = "LookupAll"
    /\ redPc = "receive"
    /\ redCount >= Len(inputs)
    /\ ReduceReturns(Ok(redObjSet, {}))
    /\ UNCHANGED <<lookupVars, taskVars, inputs, anyLimit, taskPc, anyPc, chanIdx, anyObjects,
                   ctxDone, anyResult, anySlice, ctxDoneEarly, combinator,
                   redLimit, redCount, redObjSet, redExcSet, sharedChan, baseChan>>

\* The two receiving cases of LookupExclude's select, as [returned, res, set]:
\* an error is returned, a list is added to the set of its channel.
excludeCase(res, set) ==
    IF res.kind = "err"
    THEN [returned |-> TRUE, res |-> res, set |-> set]
    ELSE [returned |-> FALSE, res |-> NoResult, set |-> set \cup res.objs]

\* The case base := <-baseChan.
ExcludeReceiveBase ==
    /\ combinator = "LookupExclude"
    /\ redPc = "receive"
    /\ redCount < Len(inputs)
    /\ baseChan # <<>>
    /\ baseChan' = Tail(baseChan)
    /\ redCount' = redCount + 1
    /\ LET step == excludeCase(inputs[Head(baseChan)], redObjSet)
       IN  /\ redObjSet' = step.set
           /\ IF step.returned
              THEN ReduceReturns(step.res)
              ELSE UNCHANGED <<redResult, redPc, childDone>>
    /\ UNCHANGED <<lookupVars, taskVars, inputs, anyLimit, taskPc, anyPc, chanIdx, anyObjects,
                   ctxDone, anyResult, anySlice, ctxDoneEarly, combinator,
                   redLimit, redExcSet, sharedChan>>

\* The case sub := <-othersChan.
ExcludeReceiveOther ==
    /\ combinator = "LookupExclude"
    /\ redPc = "receive"
    /\ redCount < Len(inputs)
    /\ sharedChan # <<>>
    /\ sharedChan' = Tail(sharedChan)
    /\ redCount' = redCount + 1
    /\ LET step == excludeCase(inputs[Head(sharedChan)], redExcSet)
       IN  /\ redExcSet' = step.set
           /\ IF step.returned
              THEN ReduceReturns(step.res)
              ELSE UNCHANGED <<redResult, redPc, childDone>>
    /\ UNCHANGED <<lookupVars, taskVars, inputs, anyLimit, taskPc, anyPc, chanIdx, anyObjects,
                   ctxDone, anyResult, anySlice, ctxDoneEarly, combinator,
                   redLimit, redObjSet, baseChan>>

\* The case <-ctx.Done() of LookupExclude's select.
ExcludeCtxDone ==
    /\ combinator = "LookupExclude"
    /\ redPc = "receive"
    /\ redCount < Len(inputs)
    /\ ctxDone
    /\ ReduceReturns(Err(RequestCanceledErr, {}))
    /\ UNCHANGED <<lookupVars, taskVars, inputs, anyLimit, taskPc, anyPc, chanIdx, anyObjects,
                   ctxDone, anyResult, anySlice, ctxDoneEarly, combinator,
                   redLimit, redCount, redObjSet, redExcSet, sharedChan, baseChan>>

\* A return of LookupExclude that does not subtract excSet.
excludeReturnBase(objs, exc, limit) ==
    {Ok(T, {}) : T \in limitedAsSlice(objs, limit)}

\* A return of LookupExclude that does not apply the limit.
excludeReturnWhole(objs, exc, limit) == {Ok(objs \ exc, {})}

\* The return of LookupExclude after its loop.
excludeReturn(objs, exc, limit) ==
    {Ok(T, {}) : T \in limitedAsSlice(objs \ exc, limit)}

\* LookupExclude outside its loop: with no request make(chan, -1) panics,
\* else it returns after the last result.
ExcludeReturn ==
    /\ combinator = "LookupExclude"
    /\ redPc = "receive"
    /\ redCount >= Len(inputs)
    /\ \E res \in (IF Len(inputs) = 0 THEN {Panic({})}
                   ELSE excludeReturn(redObjSet, redExcSet, redLimit)) :
         ReduceReturns(res)
    /\ UNCHANGED <<lookupVars, taskVars, inputs, anyLimit, taskPc, anyPc, chanIdx, anyObjects,
                   ctxDone, anyResult, anySlice, ctxDoneEarly, combinator,
                   redLimit, redCount, redObjSet, redExcSet, sharedChan, baseChan>>

NextReduce ==
    \/ \E k \in DOMAIN inputs : TaskSend(k)
    \/ \E k \in DOMAIN inputs : TaskSendBuffered(k)
    \/ CancelCtx
    \/ AnyReceive
    \/ AnyCtxDone
    \/ AnyReturn
    \/ OneReceive
    \/ OneCtxDone
    \/ AllReceive
    \/ AllCtxDone
    \/ AllReturn
    \/ ExcludeReceiveBase
    \/ ExcludeReceiveOther
    \/ ExcludeCtxDone
    \/ ExcludeReturn

SpecReduce == InitReduce /\ [][NextReduce]_vars

\* The steps of the goroutines and of the combinator; the cancellation of ctx
\* is the caller's.
ReduceSteps ==
    \/ \E k \in DOMAIN inputs : TaskSend(k)
    \/ \E k \in DOMAIN inputs : TaskSendBuffered(k)
    \/ AnyReceive
    \/ AnyCtxDone
    \/ AnyReturn
    \/ OneReceive
    \/ OneCtxDone
    \/ AllReceive
    \/ AllCtxDone
    \/ AllReturn
    \/ ExcludeReceiveBase
    \/ ExcludeReceiveOther
    \/ ExcludeCtxDone
    \/ ExcludeReturn

\* The scheduler runs every goroutine that can take a step.
SpecReduceFair == SpecReduce /\ WF_vars(ReduceSteps)

----------------------------------------------------------------------------
(* One task of lookupDirect or of processTupleToUserset as a process: the   *)
(* goroutine LookupAny started for it, with the unbuffered channel LookupAny *)
(* made for it.  The datastore, the type system and the dispatched          *)
(* sub-request answer each call in any way their signatures allow.          *)

TaskKinds == {"direct", "inferred", "ttu"}

\* What IsAllowedDirectRelation answers: a status, or an error.
DirectRelationAnswers == {"valid", "invalid", "err"}

InitTask ==
    /\ IdleLookup
    /\ IdleCombinators
    /\ tKind \in TaskKinds
    /\ tLimit \in 1..MaxLimit
    /\ tPc = (IF tKind = "direct" THEN "execute" ELSE "dispatch")
    /\ tThen = "return"
    /\ tSent = 0
    /\ tIter = "none"
    /\ tRecv = "pending"
    /\ tObjects = 0
    /\ tResolved = 0
    /\ tUsersets = FALSE

\* resultChan <- LookupResult{...}; return
SendAndReturn == tPc' = "send" /\ tThen' = "return"

\* The inferred task and the tuple-to-userset task dispatch their sub-request
\* and drive it with LookupAny: it fails, or resolves n objects.
TaskDispatch ==
    /\ tKind \in {"inferred", "ttu"}
    /\ tPc = "dispatch"
    /\ \E failed \in BOOLEAN, n \in 0..MaxRequests :
         IF failed \/ n = 0
         THEN SendAndReturn /\ UNCHANGED tResolved
         ELSE /\ tPc' = (IF tKind = "ttu" THEN "typecheck" ELSE "execute")
              /\ tResolved' = (IF tKind = "ttu" THEN n ELSE 0)
              /\ UNCHANGED tThen
    /\ UNCHANGED <<lookupVars, anyVars, redVars, tKind, tLimit, tSent, tIter, tRecv,
                   tObjects, tUsersets>>

\* The loop over result.ResolvedObjects of the tuple-to-userset task: the
\* check of the resolved relation for the next object; after the last object,
\* the tupleset lookup if there are usersets, the send of no objects if not.
TaskTypeCheck ==
    /\ tPc = "typecheck"
    /\ IF tResolved = 0
       THEN /\ IF tUsersets THEN tPc' = "execute" /\ UNCHANGED tThen
                            ELSE SendAndReturn
            /\ UNCHANGED <<tResolved, tUsersets>>
       ELSE \E allowedDirect \in DirectRelationAnswers, isEllipsis \in BOOLEAN :
              IF allowedDirect = "err"
              THEN SendAndReturn /\ UNCHANGED <<tResolved, tUsersets>>
              ELSE /\ tUsersets' = (tUsersets \/ allowedDirect = "valid")
                   /\ IF isEllipsis
                      THEN tPc' = "typecheck" /\ tResolved' = tResolved - 1
                      ELSE tPc' = "ellipsis" /\ UNCHANGED tResolved
                   /\ UNCHANGED tThen
    /\ UNCHANGED <<lookupVars, anyVars, redVars, tKind, tLimit, tSent, tIter, tRecv,
                   tObjects>>

\* The check of the ellipsis for a resolved object: on an error the task sends
\* it and goes on with the loop.
TaskEllipsis ==
    /\ tPc = "ellipsis"
    /\ \E allowedEllipsis \in DirectRelationAnswers :
         IF allowedEllipsis = "err"
         THEN /\ tPc' = "send"
              /\ tThen' = "continue"
              /\ UNCHANGED <<tResolved, tUsersets>>
         ELSE /\ tUsersets' = (tUsersets \/ allowedEllipsis = "valid")
              /\ tPc' = "typecheck"
              /\ tResolved' = tResolved - 1
              /\ UNCHANGED tThen
    /\ UNCHANGED <<lookupVars, anyVars, redVars, tKind, tLimit, tSent, tIter, tRecv,
                   tObjects>>

\* Execute of the task's tuple query: an error, which is sent, or an open
\* iterator and defer it.Close().
TaskExecute ==
    /\ tPc = "execute"
    /\ \E failed \in BOOLEAN :
         IF failed
         THEN SendAndReturn /\ UNCHANGED tIter
         ELSE tPc' = "next" /\ tIter' = "open" /\ UNCHANGED tThen
    /\ UNCHANGED <<lookupVars, anyVars, redVars, tKind, tLimit, tSent, tRecv,
                   tObjects, tResolved, tUsersets>>

\* One it.Next() of the loop over the iterator: a tuple whose object is
\* added, with a break at the limit; a tuple that is refused (it.Err() set;
\* for the tuple-to-userset task also a foreign namespace), which sends an
\* error; or nil, after which the task sends what it has.
TaskNext ==
    /\ tPc = "next"
    /\ \E tpl \in {"tuple", "refused", "nil"} :
         IF tpl = "tuple" /\ tObjects + 1 < tLimit
         THEN tObjects' = tObjects + 1 /\ UNCHANGED <<tPc, tThen>>
         ELSE /\ SendAndReturn
              /\ tObjects' = (IF tpl = "tuple" THEN tObjects + 1 ELSE tObjects)
    /\ UNCHANGED <<lookupVars, anyVars, redVars, tKind, tLimit, tSent, tIter, tRecv,
                   tResolved, tUsersets>>

\* A send on the unbuffered resultChan is over when the combinator receives
\* from the channel, which it does once.
TaskChanSend ==
    /\ tPc = "send"
    /\ tRecv = "pending"
    /\ tSent' = tSent + 1
    /\ tRecv' = "received"
    /\ IF tThen = "return"
       THEN tPc' = "return" /\ UNCHANGED tResolved
       ELSE tPc' = "typecheck" /\ tResolved' = tResolved - 1
    /\ tThen' = "return"
    /\ UNCHANGED <<lookupVars, anyVars, redVars, tKind, tLimit, tIter, tObjects,
                   tUsersets>>

\* The return of the task's function runs its deferred it.Close().
TaskReturn ==
    /\ tPc = "return"
    /\ tPc' = "done"
    /\ tIter' = (IF tIter = "open" THEN "closed" ELSE tIter)
    /\ UNCHANGED <<lookupVars, anyVars, redVars, tKind, tLimit, tThen, tSent, tRecv,
                   tObjects, tResolved, tUsersets>>

\* The combinator returns before it received from the task's channel: a
\* channel before it filled the limit or delivered an error, or ctx is done.
CombinatorLeaves ==
    /\ tRecv = "pending"
    /\ tPc # "done"
    /\ tRecv' = "gone"
    /\ UNCHANGED <<lookupVars, anyVars, redVars, tKind, tLimit, tPc, tThen, tSent,
                   tIter, tObjects, tResolved, tUsersets>>

TaskSteps ==
    \/ TaskDispatch
    \/ TaskTypeCheck
    \/ TaskEllipsis
    \/ TaskExecute
    \/ TaskNext
    \/ TaskChanSend
    \/ TaskReturn

NextTask == TaskSteps \/ CombinatorLeaves

\* The scheduler runs the task's goroutine whenever it can take a step.
SpecTask == InitTask /\ [][NextTask]_vars /\ WF_vars(TaskSteps)

----------------------------------------------------------------------------
(* Properties of lookup.                                                   *)

Done == pc = "done"

Succeeded == Done /\ result.kind = "ok"

\* The objects of the relation rel of namespace ns that the tuples relate to
\* the target, directly or through one of the usersets the target is in.
FullDirect(ns, rel, target) ==
    LET subjects == {target} \cup {t.obj : t \in {u \in tuples : u.sub = target}}
    IN  {t.obj.id : t \in {u \in tuples : /\ u.obj.ns = ns
                                          /\ u.obj.rel = rel
                                          /\ u.sub \in subjects}}

\* The ONRs reachable backwards from the ONRs of S through the tuples.
RECURSIVE Closure(_)
Closure(S) ==
    LET more == S \cup {t.obj : t \in {u \in tuples : u.sub \in S}}
    IN  IF more = S THEN S ELSE Closure(more)

OnGroupMember == req.start = RelationReference("group", "member")

OnDocument(rel) == req.start = RelationReference("document", rel)

\* C1: every ONR of a successful lookup's result has the namespace and the
\* relation of the request's start relation.
C1_ResultOfStartRelation ==
    Succeeded =>
        \A o \in result.objs : o.ns = req.start.ns /\ o.rel = req.start.rel

\* A lookup on a relation defined by a rewrite with computed usersets and a
\* tuple-to-userset succeeded with an object found through one of them.
C1_Witness ==
    /\ Succeeded
    /\ OnDocument("read")
    /\ Cardinality(result.objs) = 2
    /\ Tuple(Doc("1", "viewer"), alice) \in tuples

\* C2: a successful lookup returns at most req.limit ONRs.
C2_AtMostLimit ==
    Succeeded =>
        /\ Cardinality(result.objs) <= req.limit
        /\ Len(resolved) <= req.limit

\* A lookup whose objSet held more than limit ONRs returned.
C2_Witness ==
    /\ Succeeded
    /\ Cardinality(objSet) > req.limit
    /\ Len(resolved) = req.limit

\* C3: on group#member (member: group#member), with depth to spare, a
\* successful lookup returns exactly min(limit, |C|) ONRs, C the target and
\* every ONR reachable backwards from it.
C3_ExactlyMinLimitClosure ==
    (Succeeded /\ OnGroupMember /\ req.depth = MaxDepth /\ fault = "none") =>
        Cardinality(result.objs) =
            Min(req.limit, Cardinality(Closure({req.target})))

\* C4: on allowed = viewer - banned, a successful lookup returns no object of
\* the full resolved set of banned and only objects of the full resolved set
\* of viewer.
C4_NeverExcluded ==
    (Succeeded /\ OnDocument("allowed") /\ req.depth = MaxDepth /\ fault = "none") =>
        \A o \in result.objs :
            /\ o.id \notin FullDirect("document", "banned", req.target)
            /\ o.id \in FullDirect("document", "viewer", req.target)

\* C5: on both = viewer & editor, a successful lookup returns exactly
\* min(limit, |A \cap B|) ONRs, all of the intersection of the full resolved
\* sets.
C5_ExactlyMinLimitIntersection ==
    (Succeeded /\ OnDocument("both") /\ req.depth = MaxDepth /\ fault = "none") =>
        LET AB == FullDirect("document", "viewer", req.target)
                    \cap FullDirect("document", "editor", req.target)
        IN  /\ Cardinality(result.objs) = Min(req.limit, Cardinality(AB))
            /\ \A o \in result.objs : o.id \in AB

\* C6: when the target is of the start relation, a successful lookup's
\* result contains the target.
C6_SelfMatchReturned ==
    (Succeeded /\ selfMatch(req) # {} /\ req.depth = MaxDepth /\ fault = "none") =>
        req.target \in result.objs

\* C7: when a sub-request the closure loop dispatched returned an error E,
\* lookup delivers a LookupResult whose Err is E, and does not crash.
C7_ClosureErrorDelivered ==
    (Done /\ req.depth >= 1) =>
        \A call \in dispatched :
            call.res.kind = "err" =>
                result.kind = "err" /\ result.err = call.res.err

\* C8: when a tuple iterator of a direct, inferred or tuple-to-userset task
\* reported an error, lookup ends with an error.
C8_IteratorErrorSurfaces ==
    (Done /\ req.depth = MaxDepth /\ "iterErr" \in result.ev) => result.kind = "err"

C16_SecondRunEqual ==
    (Succeeded /\ fault = "none" /\ req.depth = MaxDepth) =>
        \A second \in lookup(req) :
            second.kind = "ok" /\ second.objs = result.objs

\* The tuples group:a#member@group:b#member and group:b#member@group:a#member.
MemberCycle == {Tuple(Group("a"), Group("b")), Tuple(Group("b"), Group("a"))}

\* C17: on the cycle of group:a#member and group:b#member, lookup for target
\* group:a#member on group#member ends, for every limit, with a result that
\* is no error and contains group:a#member.
C17_CycleReturnsTarget ==
    (/\ Done
     /\ OnGroupMember
     /\ tuples = MemberCycle
     /\ req.target = Group("a")
     /\ req.depth = MaxDepth
     /\ fault = "none") =>
        result.kind = "ok" /\ Group("a") \in result.objs

\* C18: a request whose start relation is in its direct stack or in its
\* tuple-to-userset stack ends with the empty list and no error; stated for
\* requests with depth to spare.
C18_StartOnStackEmpty ==
    (/\ Done
     /\ req.depth = MaxDepth
     /\ Has(req.directStack, req.start) \/ Has(req.ttuStack, req.start)) =>
        result.kind = "ok" /\ result.objs = {}

\* The sub-requests lookupDirect dispatches for the allowed direct subject
\* types of the start relation of r.
InferredRequests(r) ==
    LET directStack == With(r.directStack, RelationReference(r.start.ns, r.start.rel))
    IN  {inferredRequest(r, directStack, t) : t \in Range(inferredTypes(r, directStack))}

\* C19: for a request whose start relation is in its direct stack, the direct
\* handler dispatches no sub-request for an allowed direct subject type of
\* the start relation.
C19_NoInferredOnStack ==
    (/\ pc # "start"
     /\ OnDocument("viewer")
     /\ Has(req.directStack, req.start)) =>
        InferredRequests(req) = {}

\* The tuple-to-userset parent->read of document#read.
ParentRead ==
    findRelation(NamespaceDefinition("document"), "read")[1].rewrite.children[2]

\* C20: for a request on document#read whose start relation is in its
\* tuple-to-userset stack, processTupleToUserset delivers the empty list
\* without a dispatch and without a datastore query, so that a successful
\* lookup returns only documents found through reader; for any other request
\* on document#read, each sub-request processTupleToUserset dispatches has the
\* request's tuple-to-userset stack extended with the start relation.
C20_TTUStackCut ==
    (OnDocument("read") /\ pc # "start") =>
        IF Has(req.ttuStack, req.start)
        THEN /\ processTupleToUserset(req, ParentRead) = {Ok({}, {})}
             /\ Succeeded =>
                  \A o \in result.objs :
                      o.id \in FullDirect("document", "viewer", req.target)
                                  \cup FullDirect("document", "editor", req.target)
        ELSE \A ns \in Range(ttuNamespaces(req, ParentRead)) :
                 /\ computedUsersetRequest(req, ns, ParentRead).ttuStack
                        = req.ttuStack \cup {req.start}
                 /\ computedUsersetRequest(req, ns, ParentRead).directStack
                        = req.directStack

\* A lookup on document#read with document#read in its tuple-to-userset stack
\* ended with the empty list, with tuples that lead from the target to a
\* document through parent->read.
C20_Witness ==
    /\ Done
    /\ OnDocument("read")
    /\ Has(req.ttuStack, req.start)
    /\ req.depth = MaxDepth
    /\ tuples = {Tuple(Doc("1", "parent"), folder(Ellipsis)), Tuple(folder("read"), alice)}
    /\ result.kind = "ok"
    /\ result.objs = {}

----------------------------------------------------------------------------
(* Properties of LookupAny.                                                *)

AnyReturned == anyPc = "returned"

Failing == {k \in DOMAIN inputs : inputs[k].kind = "err"}

FirstFailing == CHOOSE k \in Failing : \A j \in Failing : k <= j

\* The ONRs of the results listed before the first failing one.
BeforeFirstFailing == UNION {inputs[j].objs : j \in 1..(FirstFailing - 1)}

\* C10 as stated: with at least one request that delivers an error, LookupAny
\* returns an error.
C10_AnyErrorReturned ==
    (AnyReturned /\ Failing # {}) => anyResult.kind = "err"

\* C10: LookupAny returns an error when the requests listed before the first
\* failing one deliver fewer than limit ONRs together: the error of that
\* request, or the cancellation of ctx.  When they deliver limit ONRs or more
\* it returns a success and never receives the error, unless ctx is cancelled.
C10_AnyErrorBeforeLimit ==
    (AnyReturned /\ Failing # {}) =>
        IF Cardinality(BeforeFirstFailing) < anyLimit
        THEN /\ anyResult.kind = "err"
             /\ anyResult.err \in {inputs[FirstFailing].err, RequestCanceledErr}
             /\ ~ctxDone => anyResult.err = inputs[FirstFailing].err
        ELSE /\ anyResult.kind = "ok" \/ ctxDone
             /\ taskPc[FirstFailing] # "returned"

\* LookupAny returned the error of its second request, while a third request
\* that finished first was never received from.
C10_Witness ==
    /\ AnyReturned
    /\ Len(inputs) = 3
    /\ Failing # {}
    /\ FirstFailing = 2
    /\ anyResult = Err(inputs[2].err, {})
    /\ inputs[3].kind = "err"
    /\ inputs[3].err # inputs[2].err
    /\ taskPc[3] = "sending"

\* The union of the ONRs the requests deliver.
InputUnion == UNION {inputs[k].objs : k \in DOMAIN inputs}

NoDuplicates(sl) == Cardinality(Range(sl)) = Len(sl)

\* C11: when every request delivers a success and ctx is not cancelled, the
\* list LookupAny returns has no duplicates, holds only ONRs of the union of
\* the delivered lists, and has min(limit, size of that union) elements,
\* whatever the order in which the requests finish.
C11_AnyAllSuccess ==
    (AnyReturned /\ combinator = "LookupAny" /\ Failing = {} /\ ~ctxDone) =>
        /\ anyResult.kind = "ok"
        /\ Range(anySlice) = anyResult.objs
        /\ NoDuplicates(anySlice)
        /\ Range(anySlice) \subseteq InputUnion
        /\ Len(anySlice) = Min(anyLimit, Cardinality(InputUnion))

\* LookupAny returned one of the two ONRs its requests deliver, at limit 1,
\* from its second request, which finished after the third.
C11_Witness ==
    /\ AnyReturned
    /\ combinator = "LookupAny"
    /\ ~ctxDone
    /\ Len(inputs) = 3
    /\ Failing = {}
    /\ inputs[1].objs = {}
    /\ Cardinality(inputs[2].objs) = 2
    /\ anyLimit = 1
    /\ Len(anySlice) = 1
    /\ taskPc[3] = "sending"

----------------------------------------------------------------------------
(* Properties of the combinators run alone.                                *)

ReduceReturned == redPc = "returned"

\* The ONRs of the base less those of the other requests.
BaseLessOthers ==
    inputs[1].objs \ UNION {inputs[k].objs : k \in DOMAIN inputs \ {1}}

\* C12: when each of its n >= 1 requests delivers a success and ctx is not
\* cancelled, LookupExclude returns min(limit, |D|) ONRs of D, the list of the
\* first request less the lists of the others, whatever the order in which
\* the requests finish.
C12_ExcludeAllSuccess ==
    (/\ ReduceReturned
     /\ combinator = "LookupExclude"
     /\ Len(inputs) >= 1
     /\ Failing = {}
     /\ ~ctxDone) =>
        /\ redResult.kind = "ok"
        /\ redResult.objs \subseteq BaseLessOthers
        /\ Cardinality(redResult.objs) = Min(redLimit, Cardinality(BaseLessOthers))

\* LookupExclude returned the one ONR that is left of the two of its base
\* after the ONR of its third request is taken out.
C12_Witness ==
    /\ ReduceReturned
    /\ combinator = "LookupExclude"
    /\ ~ctxDone
    /\ Len(inputs) = 3
    /\ Failing = {}
    /\ inputs[1].objs = {Group("a"), Group("b")}
    /\ inputs[2].objs = {}
    /\ inputs[3].objs = {Group("a")}
    /\ redResult = Ok({Group("b")}, {})

\* 1, 2, ..., n: the requests finish in the order they are listed in.
ListOrder(n) == [i \in 1..n |-> i]

\* What LookupAll returns when its requests finish in list order.
AllInListOrder ==
    CHOOSE res \in AllFrom(inputs, ListOrder(Len(inputs)), 1, {}) : TRUE

\* C13: with a fixed list of results and ctx not cancelled, LookupAll and
\* LookupExclude return the same outcome for every order in which the
\* requests finish: LookupAll what it returns for the list order, an error
\* or the same set; LookupExclude an error when a request fails, a set else.
C13_OrderIndependent ==
    (/\ ReduceReturned
     /\ combinator \in {"LookupAll", "LookupExclude"}
     /\ Len(inputs) >= 1
     /\ ~ctxDone) =>
        IF combinator = "LookupAll"
        THEN /\ redResult.kind = AllInListOrder.kind
             /\ redResult.objs = AllInListOrder.objs
        ELSE redResult.kind = (IF Failing = {} THEN "ok" ELSE "err")

\* A combinator returned for the one request x, a success, with ctx live.
ReturnedForOne(c) ==
    /\ combinator = c
    /\ (IF c = "LookupAny" THEN AnyReturned ELSE ReduceReturned)
    /\ Len(inputs) = 1
    /\ inputs[1].kind = "ok"
    /\ ~ctxDone

\* A combinator returned for no request.
ReturnedForNone(c) ==
    /\ combinator = c
    /\ (IF c = "LookupAny" THEN AnyReturned ELSE ReduceReturned)
    /\ Len(inputs) = 0

\* C14 as stated: for every limit, LookupAll of the one list x and
\* LookupExclude of the one list x return exactly x, and LookupAll and
\* LookupAny of no request return the empty list with no error.
C14_Identities ==
    /\ ReturnedForOne("LookupAll") => redResult = Ok(inputs[1].objs, {})
    /\ ReturnedForOne("LookupExclude") => redResult = Ok(inputs[1].objs, {})
    /\ ReturnedForNone("LookupAll") => redResult = Ok({}, {})
    /\ ReturnedForNone("LookupAny") => anyResult = Ok({}, {})

\* C14: for every limit, LookupAll of the one list x returns exactly x;
\* LookupExclude of the one list x returns min(limit, |x|) ONRs of x, which is
\* x when x has at most limit ONRs; LookupAll and LookupAny of no request
\* return the empty list with no error.
C14_IdentitiesWithinLimit ==
    /\ ReturnedForOne("LookupAll") => redResult = Ok(inputs[1].objs, {})
    /\ ReturnedForOne("LookupExclude") =>
          /\ redResult.kind = "ok"
          /\ redResult.objs \subseteq inputs[1].objs
          /\ Cardinality(redResult.objs) = Min(redLimit, Cardinality(inputs[1].objs))
          /\ Cardinality(inputs[1].objs) <= redLimit => redResult.objs = inputs[1].objs
    /\ ReturnedForNone("LookupAll") => redResult = Ok({}, {})
    /\ ReturnedForNone("LookupAny") => anyResult = Ok({}, {}) /\ anySlice = <<>>

\* LookupExclude returned one ONR of the two of its only request, at limit 1.
C14_Witness ==
    /\ ReturnedForOne("LookupExclude")
    /\ Cardinality(inputs[1].objs) = 2
    /\ redLimit = 1
    /\ redResult.kind = "ok"
    /\ Cardinality(redResult.objs) = 1

\* What the combinator that was run returned.
Returned == IF combinator = "LookupAny" THEN anyResult ELSE redResult

\* C15: when ctx is cancelled while a combinator still has a result to
\* receive, at its invocation or later, the combinator returns the
\* request-canceled error, and no success made of the results it received;
\* stated for requests that all deliver a success.
C15_CancelledReturnsCanceled ==
    (/\ AnyReturned \/ ReduceReturned
     /\ ctxDoneEarly
     /\ Failing = {}) =>
        Returned = Err(RequestCanceledErr, {})

----------------------------------------------------------------------------
(* Further properties of lookup.                                           *)

\* C21: the list a successful lookup returns holds no ONR twice, also when
\* an object is resolved by several union branches, by the self-match and by
\* a sub-request of the closure loop.
C21_NoDuplicateResolved ==
    Succeeded => NoDuplicates(resolved) /\ Range(resolved) = result.objs

\* A lookup on reader = viewer + editor returned document:1 once, with
\* user:alice a viewer and an editor of it.
C21_Witness ==
    /\ Succeeded
    /\ OnDocument("reader")
    /\ tuples = {Tuple(Doc("1", "viewer"), alice), Tuple(Doc("1", "editor"), alice)}
    /\ req.limit = MaxLimit
    /\ resolved = <<Doc("1", "reader")>>

----------------------------------------------------------------------------
(* Further properties of the combinators run alone.                        *)

CombinatorReturned == AnyReturned \/ ReduceReturned

AllTasksReturned == \A k \in DOMAIN inputs : taskPc[k] = "returned"

\* C23: after a combinator returned, for whatever reason, every task it
\* started terminates in the end: none stays blocked at the send of its
\* result.
C23_TasksTerminate == [](CombinatorReturned => <>AllTasksReturned)

----------------------------------------------------------------------------
(* Properties of a task run alone.                                         *)

\* C22: a task sends exactly one LookupResult on its result channel: it has
\* sent one when it ends, and it never comes to a send after it has sent,
\* on every error path of the direct, inferred and tuple-to-userset tasks.
C22_ExactlyOneSend ==
    /\ tPc = "done" => tSent = 1
    /\ tPc = "send" => tSent = 0

\* C24: a tuple iterator a task has opened is closed in the end, on every
\* path the task and the combinator that started it can take.
C24_IteratorClosed == [](tIter = "open" => <>(tIter = "closed"))

----------------------------------------------------------------------------
(* Properties of the closure loop of lookup.                               *)

\* The ONRs the closure loop has dispatched a sub-request for.
DispatchedTargets == {c.req.target : c \in dispatched}

Passes == Cardinality({c.req.limit : c \in dispatched})

\* What is left to the closure loop: twice the ONRs objSet may still take
\* below the limit, and one more while ONRs are left to check.
LoopVariant ==
    2 * (IF Cardinality(objSet) < req.limit
         THEN req.limit - Cardinality(objSet) ELSE 0)
      + (IF toCheck # {} THEN 1 ELSE 0)

----------------------------------------------------------------------------
(* Properties of the sub-requests lookup builds.                           *)

\* The children of a rewrite and of the rewrites nested in it.
RECURSIVE RewriteChildren(_)
RewriteChildren(rw) ==
    UNION {IF c.kind = "rewrite" THEN RewriteChildren(c.rw) ELSE {c} :
             c \in Range(rw.children)}

\* The handlers the structural lookup of r runs: the children of the rewrite
\* of the start relation, or _this for a relation without a rewrite.
StructuralChildren(r) ==
    IF r.start.ns \notin Namespaces THEN {}
    ELSE LET found == findRelation(NamespaceDefinition(r.start.ns), r.start.rel)
         IN  IF found = <<>> THEN {}
             ELSE IF found[1].rewrite = NoRewrite THEN {XThis}
             ELSE RewriteChildren(found[1].rewrite)

\* The sub-requests lookupDirect builds for r.
DirectRequests(r) ==
    IF XThis \in StructuralChildren(r) THEN InferredRequests(r) ELSE {}

\* The sub-requests lookupComputed builds for r.
ComputedRequests(r) ==
    {computedRequest(r, cu) : cu \in {c \in StructuralChildren(r) : c.kind = "cu"}}

\* The sub-requests processTupleToUserset builds for r.
TupleToUsersetRequests(r) ==
    IF Has(r.ttuStack, RelationReference(r.start.ns, r.start.rel)) THEN {}
    ELSE UNION {{computedUsersetRequest(r, ns, ttu) :
                   ns \in Range(ttuNamespaces(r, ttu))} :
                ttu \in {c \in StructuralChildren(r) : c.kind = "ttu"}}

\* The sub-requests the closure loop has built for the request.
ClosureRequests == {c.req : c \in dispatched}

\* The sub-requests the structural lookup of r builds.
StructuralRequests(r) ==
    DirectRequests(r) \cup ComputedRequests(r) \cup TupleToUsersetRequests(r)

\* C26: the stacks only grow: every sub-request has the stacks of the
\* request among its own; a sub-request of the closure loop has both stacks
\* unchanged, one of a tuple-to-userset the direct stack, one of a computed
\* userset or of an allowed direct subject type the tuple-to-userset stack;
\* the request keeps its own stacks.
C26_StacksGrow ==
    pc # "start" =>
      /\ \A s \in StructuralRequests(req) \cup ClosureRequests :
           /\ req.directStack \subseteq s.directStack
           /\ req.ttuStack \subseteq s.ttuStack
      /\ \A s \in ClosureRequests :
           s.directStack = req.directStack /\ s.ttuStack = req.ttuStack
      /\ \A s \in TupleToUsersetRequests(req) : s.directStack = req.directStack
      /\ \A s \in ComputedRequests(req) \cup DirectRequests(req) :
           s.ttuStack = req.ttuStack

\* A lookup on document#read with folder#read in both of its stacks ended
\* after it built sub-requests for its computed userset, for its
\* tuple-to-userset and in its closure loop.
C26_Witness ==
    /\ Done
    /\ OnDocument("read")
    /\ req.directStack = {RelationReference("folder", "read")}
    /\ req.ttuStack = {RelationReference("folder", "read")}
    /\ ComputedRequests(req) # {}
    /\ TupleToUsersetRequests(req) # {}
    /\ ClosureRequests # {}

\* The levels of lookup nested under the dispatch of r, through the
\* sub-requests the structural lookup builds.
RECURSIVE Nesting(_)
Nesting(r) ==
    IF r.depth < 1 THEN 0
    ELSE LET below == {Nesting(s) : s \in StructuralRequests(r)} \cup {0}
         IN  1 + CHOOSE n \in below : \A m \in below : m <= n

\* C27: every sub-request has the depth remaining of the request less one
\* and the revision of the request; for a request the dispatcher let
\* through, no sub-request has a negative depth, and lookup is nested under
\* it at most as many levels deep as its depth remaining.
C27_DepthDecreases ==
    pc # "start" =>
      /\ \A s \in StructuralRequests(req) \cup ClosureRequests :
           /\ s.depth = req.depth - 1
           /\ s.atRevision = req.atRevision
           /\ req.depth >= 1 => s.depth >= 0
      /\ req.depth >= 1 => Nesting(req) <= req.depth

\* A lookup on ca = cb, cb = ca, each level of which builds the sub-request
\* of the next, was nested as deep as its depth remaining allows.
C27_Witness ==
    /\ Done
    /\ OnDocument("ca")
    /\ req.depth = MaxDepth
    /\ ComputedRequests(req) # {}
    /\ Nesting(req) = MaxDepth

\* C28: every sub-request of the closure loop has the limit of the request
\* less the number of ONRs in objSet when it is built, and that limit is at
\* least 1 and at most the limit of the request, also for a request whose
\* limit is noLimit: the subtraction stays within the range of int.
C28_ClosureLimit ==
    [][\A c \in dispatched' \ dispatched :
         /\ c.req.limit = req.limit - Cardinality(objSet)
         /\ 1 <= c.req.limit
         /\ c.req.limit <= req.limit
         /\ c.req.limit <= noLimit]_vars

\* A lookup with the limit noLimit ended after its closure loop built a
\* sub-request for the one document it had found.
C28_Witness ==
    /\ Done
    /\ req.limit = noLimit
    /\ ClosureRequests # {}
    /\ \A s \in ClosureRequests : s.limit = noLimit - 1

----------------------------------------------------------------------------
(* Properties of the rewrites.                                             *)

\* The rewrite of the start relation of r, NoRewrite when it has none.
StartRewrite(r) ==
    IF r.start.ns \notin Namespaces THEN NoRewrite
    ELSE LET found == findRelation(NamespaceDefinition(r.start.ns), r.start.rel)
         IN  IF found = <<>> THEN NoRewrite ELSE found[1].rewrite

\* C29: for an exclusion rewrite, also one with no children,
\* processSetOperation calls LookupExclude with at least one request or
\* delivers an error; lookup does not crash in a LookupExclude that was
\* given no request.
C29_ExcludeGivenBase ==
    (pc # "start" /\ StartRewrite(req).op = "exclusion") =>
        \/ Len(StartRewrite(req).children) >= 1
        \/ /\ \A res \in processSetOperation(req, StartRewrite(req), "LookupExclude") :
                  res.kind = "err"
           /\ result.kind # "panic"

====
